---- MODULE Spec2Model ----
(***************************************************************************)
(* Model of the protobiogenesis Monte Carlo core, src/code/biogenesis_core.py *)
(* (Params, run_trial, run_simulation and the sub-models they call).        *)
(*                                                                          *)
(* Numbers.  A Python float is modelled as a small binary float: an integer  *)
(* count of units of 1/Unit that has at most Mant significant bits.  Every  *)
(* float operation computes its exact result and rounds it to the nearest   *)
(* such value, a tie going to the even one, as IEEE arithmetic does; so     *)
(* 1.0, 0.5 or 3.0 are exact, 0.85 is not, addition is not associative and  *)
(* 1.0 - x drops the low bits of a small x.  The float nan is the separate  *)
(* value NaN.  Periods (ext_periods, T_internal) span 0.05 .. 31025 and are *)
(* counted in their own unit, 1/PUnit.                                      *)
(*                                                                          *)
(* Randomness.  numpy's generator is modelled by a linear congruential      *)
(* generator: a state, advanced once per draw, from which the drawn value   *)
(* is computed.  What stream seed 42 produces is left open: Init chooses    *)
(* the state that default_rng(42) yields among SeedStates and every         *)
(* re-import of the module yields that same state again.                    *)
(***************************************************************************)
EXTENDS Integers, Sequences, FiniteSets, TLC

VARIABLES
    seed42,     \* the generator state that default_rng(42) produces
    kwargs,     \* the keyword arguments the script passes to Params(...)
    params,     \* the Params object
    rng,        \* module-level generator: [state, draws]
    pc,         \* position of the running script
    tr,         \* locals of the run_trial invocation in progress
    done,       \* run_simulation: number of loop iterations completed
    successes,  \* run_simulation: successes
    coh_list,   \* run_simulation: coh_list
    fid_list,   \* run_simulation: fid_list
    I_list,     \* run_simulation: I_list
    result,     \* the Result returned by the last run_simulation call
    exc,        \* the exception that ended the script, "none" if none
    visited,    \* history: stages the current trial has entered, in order
    log,        \* history: what each run_trial of the current call returned
    runs        \* history: one record per run_simulation call

vars == <<seed42, kwargs, params, rng, pc, tr, done, successes, coh_list,
          fid_list, I_list, result, exc, visited, log, runs>>

----------------------------------------------------------------------------
(* Bounds of the model *)

MaxSpecies == 2      \* n_species ranges over 0..MaxSpecies
MaxTrials == 2       \* trials ranges over 0..MaxTrials
MaxRuns == 2         \* run_simulation calls per behaviour
MaxOutcomes == 3     \* trials of a run_simulation fed with given outcomes
MaxCalls == 2        \* calls of one function per behaviour
Mant == 8            \* significant bits of a float

----------------------------------------------------------------------------
(* Floats *)

Unit == 1024
PUnit == 16
NaN == -999999999
\* every finite float is below MaxFloat (in whole units): a quotient that
\* reaches it is inf
MaxFloat == 262144

IsNaN(x) == x = NaN

Abs(x) == IF x < 0 THEN -x ELSE x

RECURSIVE Pow2(_)
Pow2(k) == IF k = 0 THEN 1 ELSE 2 * Pow2(k - 1)

RECURSIVE Spacing(_)
\* distance between neighbouring floats at magnitude v >= 0
Spacing(v) == IF v < Pow2(Mant) THEN 1 ELSE 2 * Spacing(v \div 2)

\* a / b rounded to the nearest integer, a tie to the even one, for a >= 0, b > 0
RoundQuot(a, b) ==
    LET q == a \div b
        r == a % b
    IN IF 2 * r < b THEN q
       ELSE IF 2 * r > b THEN q + 1
       ELSE IF q % 2 = 0 THEN q ELSE q + 1

\* the float nearest to the exact value v
Round(v) ==
    LET m == Abs(v)
        sp == Spacing(m)
        r == RoundQuot(m, sp) * sp
    IN IF v < 0 THEN -r ELSE r

\* the float nearest to (a / b) * scale, for b > 0
Quot(a, b, scale) ==
    LET m == Abs(a)
        whole == (m \div b) * scale
        part == RoundQuot((m % b) * scale, b)
    IN IF a < 0 THEN -Round(whole + part) ELSE Round(whole + part)

\* Python's max(a, b) on floats: b if b > a, else a.  A comparison with nan
\* is False, so max(a, nan) = a and max(nan, b) = nan.
PyMax(a, b) ==
    IF IsNaN(a) THEN NaN
    ELSE IF IsNaN(b) THEN a
    ELSE IF b > a THEN b ELSE a

FAdd(a, b) == IF IsNaN(a) \/ IsNaN(b) THEN NaN ELSE Round(a + b)
FSub(a, b) == IF IsNaN(a) \/ IsNaN(b) THEN NaN ELSE Round(a - b)
FNeg(a) == IF IsNaN(a) THEN NaN ELSE -a
FMul(a, b) ==
    IF IsNaN(a) \/ IsNaN(b) THEN NaN
    ELSE IF (a < 0) = (b < 0) THEN Quot(Abs(a) * Abs(b), Unit, 1)
    ELSE -Quot(Abs(a) * Abs(b), Unit, 1)
\* a / b for b # 0 (Python raises ZeroDivisionError on b = 0: the callers
\* model that case themselves)
FDiv(a, b) ==
    IF IsNaN(a) \/ IsNaN(b) THEN NaN
    ELSE IF b > 0 THEN Quot(a, b, Unit)
    ELSE Quot(-a, -b, Unit)
\* a < b, a > b on floats: False when either side is nan
FLt(a, b) == ~IsNaN(a) /\ ~IsNaN(b) /\ a < b
FGt(a, b) == ~IsNaN(a) /\ ~IsNaN(b) /\ a > b

\* the float written n/d in the source (1.0 is Lit(1, 1), 0.85 is Lit(85, 100))
Lit(n, d) == Quot(n, d, Unit)
\* the period written n/d
PLit(n, d) == Quot(n, d, PUnit)
\* float(k) for an int k
Float(k) == Round(k * Unit)

RECURSIVE SumSeq(_)
\* sum of a list, added left to right
SumSeq(s) == IF s = <<>> THEN 0 ELSE FAdd(SumSeq(SubSeq(s, 1, Len(s) - 1)), s[Len(s)])

\* the first element taken for the mean
Mean_first_only(s) == IF s = <<>> THEN NaN ELSE s[1]

\* np.mean of a list: nan (with a warning, no exception) for an empty list
Mean(s) == IF s = <<>> THEN NaN
           ELSE IF IsNaN(SumSeq(s)) THEN NaN
           ELSE Quot(SumSeq(s), Len(s), 1)

----------------------------------------------------------------------------
(* The random generator *)

Modulus == 256
Multiplier == 141
Increment == 3

SeedStates == {42, 7, 200}

\* a generator seeded from fresh entropy on every construction
default_rng_unseeded(s) == [state |-> (s + 5 * Len(runs)) % Modulus, draws |-> 0]
default_rng(s) == [state |-> s, draws |-> 0]

\* the generator after one more draw
Advance(g) ==
    [state |-> (Multiplier * g.state + Increment) % Modulus,
     draws |-> g.draws + 1]

RECURSIVE AdvanceBy(_, _)
AdvanceBy(g, k) == IF k = 0 THEN g ELSE AdvanceBy(Advance(g), k - 1)

\* rng.random(): the value of the draw that leaves the generator in g, in [0, 1)
Uniform(g) == Quot(g.state, Modulus, Unit)

\* rng.normal(loc, scale): loc + scale * z.  z is read off the draw; its
\* support is cut to [-6, 6) standard deviations.
StdNormal(g) == FSub(FMul(Float(12), Uniform(g)), Float(6))
Normal(g, loc, scale) == FAdd(loc, FMul(scale, StdNormal(g)))

----------------------------------------------------------------------------
(* Params *)

\* the constructor's ext_periods argument: None, or a list
None == [given |-> FALSE, list |-> <<>>]
List(l) == [given |-> TRUE, list |-> l]

\* the dataclass defaults (fields of Params, lines 13-36)
Defaults ==
    [n_species |-> 20, density |-> Lit(6, 10), energy_grad |-> Lit(1, 1),
     noise_level |-> Lit(25, 100), tidal_mod_amp |-> Lit(2, 10),
     membrane_threshold |-> Lit(55, 100), membrane_leak |-> Lit(15, 100),
     code_length |-> 64, alphabet |-> 4, base_error_rate |-> Lit(2, 100),
     crit_error_threshold |-> Lit(4, 100), f_eta |-> Lit(32, 100),
     ext_periods |-> None, resonance_tolerance |-> Lit(8, 100),
     trials |-> 500, mode |-> "no_field"]

\* Params.__post_init__: the only thing construction does beyond storing
\* the arguments is to replace a missing ext_periods by the default list
\* [1.0, 29.5, 31025.0]
DefaultPeriods == <<PLit(1, 1), PLit(295, 10), PLit(31025, 1)>>
post_init(self) ==
    IF ~self.ext_periods.given
    THEN [self EXCEPT !.ext_periods = DefaultPeriods]
    ELSE [self EXCEPT !.ext_periods = self.ext_periods.list]

----------------------------------------------------------------------------
(* Sub-models *)

Max(S) == CHOOSE x \in S : \A y \in S : y <= x

\* the function f with every value computed (an array, not a rule)
Array(f) == f @@ [x \in {} |-> 0]

RECURSIVE SumTo(_, _)
\* f[1] + ... + f[n], added left to right
SumTo(f, n) == IF n = 0 THEN 0 ELSE FAdd(SumTo(f, n - 1), f[n])

\* the entries of the n x n matrix M in row-major order
Flat(M, n) == [k \in 1..(n * n) |-> M[<<((k - 1) \div n) + 1, ((k - 1) % n) + 1>>]]

\* a / (s + 1e-12) for 0 <= a <= s: 1e-12 is below the resolution, and its
\* only effect is that the quotient is 0, not nan, when s = 0 (then a = 0)
\* a / s with no epsilon in the divisor: nan for 0 / 0
DivNoEps(a, s) == IF s = 0 THEN NaN ELSE FDiv(a, s)
DivEps(a, s) == IF s = 0 THEN 0 ELSE FDiv(a, s)

\* a builder that draws no mask where the weight is already below 0.5
build_reaction_network_lazy_mask(g, n, density) ==
    LET N == 1..n
        weight == Array([e \in N \X N |->
                          Uniform(AdvanceBy(g, (e[1] - 1) * n + e[2]))])
        light == Cardinality({e \in N \X N : weight[e] < Lit(5, 10)})
        mask == Array([e \in N \X N |-> weight[e] >= Lit(5, 10)])
        zeroed == Array([e \in N \X N |->
                          IF e[1] # e[2] /\ mask[e] THEN weight[e] ELSE 0])
        row_sums == Array([i \in N |-> SumTo([j \in N |-> zeroed[<<i, j>>]], n)])
    IN [adj |-> Array([e \in N \X N |-> DivEps(zeroed[e], row_sums[e[1]])]),
        rng |-> AdvanceBy(g, 2 * n * n - light),
        weight |-> weight, mask |-> mask]

\* build_reaction_network(n, density), with the generator in state g:
\* n*n draws for the weights, then n*n draws for the mask (row-major)
build_reaction_network(g, n, density) ==
    LET N == 1..n
        weight == Array([e \in N \X N |->
                          Uniform(AdvanceBy(g, (e[1] - 1) * n + e[2]))])
        mask == Array([e \in N \X N |->
                    Uniform(AdvanceBy(g, n * n + (e[1] - 1) * n + e[2])) < density])
        masked == Array([e \in N \X N |-> IF mask[e] THEN weight[e] ELSE 0])
        zeroed == Array([e \in N \X N |-> IF e[1] = e[2] THEN 0 ELSE masked[e]])
        row_sums == Array([i \in N |-> SumTo([j \in N |-> zeroed[<<i, j>>]], n)])
    IN [adj |-> Array([e \in N \X N |-> DivEps(zeroed[e], row_sums[e[1]])]),
        rng |-> AdvanceBy(g, 2 * n * n),
        weight |-> weight, mask |-> mask]

\* ---- np.linalg.eigvals / spectral radius -------------------------------
\* adj is non-negative, so its spectral radius is the largest Perron root
\* of its irreducible diagonal blocks (the strongly connected classes of
\* the graph of non-zero entries).  The root of a one-node class is its
\* diagonal entry; the root of a larger class C is found by power iteration
\* on adj[C] + I, which is primitive.

RECURSIVE Closure(_, _, _)
\* R extended by paths through the nodes of Via
Closure(R, Via, N) ==
    IF Via = {} THEN R
    ELSE LET k == CHOOSE x \in Via : TRUE
         IN Closure(Array([e \in N \X N |->
                               R[e] \/ (R[<<e[1], k>>] /\ R[<<k, e[2]>>])]),
                    Via \ {k}, N)

Classes(adj, n) ==
    LET N == 1..n
        reach == Closure(Array([e \in N \X N |-> e[1] = e[2] \/ adj[e] > 0]), N, N)
    IN {{j \in N : reach[<<i, j>>] /\ reach[<<j, i>>]} : i \in N}

PowerSteps == 12

RECURSIVE PerronShifted(_, _, _, _, _)
\* ||(adj[C] + I) x|| / ||x|| after k more steps, x scaled to maximum 1.0
PerronShifted(adj, n, C, x, k) ==
    LET y == Array([i \in C |->
                   FAdd(x[i], SumTo([j \in 1..n |->
                                        IF j \in C THEN FMul(adj[<<i, j>>], x[j])
                                        ELSE 0], n))])
        m == Max({y[i] : i \in C})
    IN IF k = 0 \/ m = 0 THEN m
       ELSE PerronShifted(adj, n, C, Array([i \in C |-> FDiv(y[i], m)]), k - 1)

ClassRadius(adj, n, C) ==
    IF Cardinality(C) = 1
    THEN LET i == CHOOSE x \in C : TRUE IN Abs(adj[<<i, i>>])
    ELSE FSub(PerronShifted(adj, n, C, [i \in C |-> Lit(1, 1)], PowerSteps),
              Lit(1, 1))

\* np.max(np.abs(np.linalg.eigvals(adj))).real, for n >= 1
spectral_radius(adj, n) == Max({ClassRadius(adj, n, C) : C \in Classes(adj, n)})

\* ---- np.log --------------------------------------------------------------
Ln2 == Lit(693147, 1000000)

\* ln x for 0.5 <= x <= 1: 2 (z + z^3/3 + z^5/5), z = (x - 1)/(x + 1)
LnSeries(x) ==
    LET z == FDiv(FSub(x, Lit(1, 1)), FAdd(x, Lit(1, 1)))
        z3 == FMul(FMul(z, z), z)
        z5 == FMul(FMul(z3, z), z)
    IN FMul(Float(2), FAdd(FAdd(z, FDiv(z3, Float(3))), FDiv(z5, Float(5))))

RECURSIVE Ln(_)
\* np.log(x) for 0 < x <= 1
Ln(x) == IF 2 * x < Unit THEN FSub(Ln(2 * x), Ln2) ELSE LnSeries(x)

\* p * np.log(p) for p = a + 1e-12, 0 <= a <= 1: 1e-12 is below the
\* resolution, and 1e-12 * log(1e-12) rounds to 0
PLogP(a) == IF a = 0 THEN 0 ELSE FMul(a, Ln(a))

\* ---- matrix product ------------------------------------------------------
MatMul(A, B, n) ==
    LET N == 1..n
    IN Array([e \in N \X N |->
           SumTo([k \in N |-> FMul(A[<<e[1], k>>], B[<<k, e[2]>>])], n)])

\* evaluate_cycle_coherence(adj, energy, leak, noise), for n >= 1
evaluate_cycle_coherence(adj, n, energy, leak, noise) ==
    LET N == 1..n
        radius == spectral_radius(adj, n)
        plogp == Array([e \in N \X N |-> PLogP(adj[e])])
        entropy == FDiv(FNeg(SumTo(Flat(plogp, n), n * n)), Float(n))
        coherence == FSub(FMul(radius, FAdd(Lit(1, 1), FMul(Lit(6, 10), energy))),
                          FAdd(FMul(Lit(4, 10), leak), FMul(Lit(3, 10), noise)))
        shifted == Array([e \in N \X N |->
                       FAdd(adj[e], IF e[1] = e[2] THEN Lit(1, 1000000) ELSE 0)])
        cube == MatMul(MatMul(shifted, shifted, n), shifted, n)
        loop_strength == FDiv(SumTo([i \in N |-> cube[<<i, i>>]], n), Float(n))
        has_cycle == FAdd(FAdd(coherence, FMul(Lit(15, 100), entropy)),
                          FMul(Lit(5, 10), loop_strength)) > Lit(85, 100)
    IN [coherence |-> coherence, has_cycle |-> has_cycle]

\* inner_period(ext_periods, f_eta, levels = 2): mean of T * f_eta ** 2
inner_period(ext_periods, f_eta) ==
    Mean([k \in 1..Len(ext_periods) |->
             FMul(ext_periods[k], FMul(f_eta, f_eta))])

\* the products written back into the list that was passed in
ext_periods_scaled_in_place(ext_periods, f_eta) ==
    [k \in 1..Len(ext_periods) |-> FMul(ext_periods[k], FMul(f_eta, f_eta))]

\* the list p.ext_periods after inner_period and resonance_score have run on
\* it: inner_period appends its products to a new list vals (lines 101-104)
\* and resonance_score only iterates over the list (lines 113-119)
ext_periods_after(ext_periods, f_eta) == ext_periods

\* the score of one external period T in resonance_score (lines 115-119),
\* for T > 0, T_internal > 0, tol # 0
period_score(T, T_internal, tol) ==
    LET k == Max({1, RoundQuot(Quot(T, T_internal, Unit), Unit)})
        mismatch == Quot(Abs(Round(Quot(T, k, 1) - T_internal)), T, Unit)
    IN PyMax(0, FSub(Lit(1, 1), FDiv(mismatch, tol)))

\* T / T_internal is inf, so that round(...) raises OverflowError (line 116)
quotient_overflows(T, T_internal) == T \div T_internal >= MaxFloat

\* the exception resonance_score raises, or "none": in the first iteration
\* that raises, ZeroDivisionError when it divides a period by a zero
\* T_internal (line 116) or a mismatch by a zero tol (line 119),
\* OverflowError when the quotient of line 116 is inf
resonance_exception(T_internal, ext_periods, tol) ==
    LET N == 1..Len(ext_periods)
        over == {k \in N : T_internal > 0 /\ quotient_overflows(ext_periods[k], T_internal)}
    IN IF ext_periods = <<>> THEN "none"
       ELSE IF T_internal = 0 THEN "ZeroDivisionError"
       ELSE IF tol = 0 THEN (IF 1 \in over THEN "OverflowError" ELSE "ZeroDivisionError")
       ELSE IF over # {} THEN "OverflowError"
       ELSE "none"

resonance_raises(T_internal, ext_periods, tol) ==
    resonance_exception(T_internal, ext_periods, tol) # "none"

\* resonance_score(T_internal, ext_periods, tol), when it does not raise
resonance_score(T_internal, ext_periods, tol) ==
    Mean([k \in 1..Len(ext_periods) |->
             period_score(ext_periods[k], T_internal, tol)])

\* the noise term added
membrane_stability_noise_added(base_threshold, energy_grad, noise) ==
    FAdd(FAdd(base_threshold, FMul(Lit(25, 100), energy_grad)),
         FMul(Lit(35, 100), noise))

\* membrane_stability(base_threshold, energy_grad, noise)
membrane_stability(base_threshold, energy_grad, noise) ==
    FSub(FAdd(base_threshold, FMul(Lit(25, 100), energy_grad)),
         FMul(Lit(35, 100), noise))

\* effective_error of replication_fidelity (line 138)
\* the effective error without the code-length factor
effective_error_any_length(code_length, base_error, mod_factor) ==
    FMul(base_error, FSub(Lit(1, 1), FMul(Lit(6, 10), mod_factor)))

\* an effective error that shrinks as the code gets longer
effective_error_per_symbol(code_length, base_error, mod_factor) ==
    FMul(FDiv(base_error,
              FAdd(Lit(1, 1), FMul(Lit(5, 10), FDiv(Float(code_length), Float(64))))),
         FSub(Lit(1, 1), FMul(Lit(6, 10), mod_factor)))

effective_error(code_length, base_error, mod_factor) ==
    FMul(FMul(base_error,
              FAdd(Lit(1, 1), FMul(Lit(5, 10), FDiv(Float(code_length), Float(64))))),
         FSub(Lit(1, 1), FMul(Lit(6, 10), mod_factor)))

\* replication_fidelity(code_length, alphabet, base_error, mod_factor)
replication_fidelity(code_length, alphabet, base_error, mod_factor) ==
    PyMax(0, FSub(Lit(1, 1), effective_error(code_length, base_error, mod_factor)))

\* invariant_I(coherence, T_internal): coherence / (T_internal + 1e-9), for
\* T_internal > 0 or nan; T_internal is a period, the quotient a plain float
invariant_I(coherence, T_internal) ==
    IF IsNaN(T_internal) THEN NaN
    ELSE Quot(coherence * PUnit, T_internal, 1)

----------------------------------------------------------------------------
(* The sweep variant: biogenesis_simulation.py *)

RECURSIVE Log(_)
\* np.log(x) for x > 0
Log(x) == IF x > Unit THEN FAdd(Log(FDiv(x, Float(2))), Ln2) ELSE Ln(x)

RECURSIVE Exp(_)
\* np.exp(-x) for x >= 0: halve x down to 0.5, sum the series
\* 1 - x (1 - x/2 (1 - x/3 (1 - x/4))), square back
Exp(x) ==
    IF x > Unit \div 2
    THEN LET h == Exp(FDiv(x, Float(2))) IN FMul(h, h)
    ELSE FSub(Lit(1, 1), FMul(x,
         FSub(Lit(1, 1), FMul(FDiv(x, Float(2)),
         FSub(Lit(1, 1), FMul(FDiv(x, Float(3)),
         FSub(Lit(1, 1), FDiv(x, Float(4)))))))))

RECURSIVE Power(_, _)
\* x ** y for a whole y >= 0
Power(x, y) == IF y = 0 THEN Lit(1, 1) ELSE FMul(x, Power(x, y - Unit))

FIELD_PROTECTION_FACTOR == Lit(95, 100)

\* the dataclass defaults of the sweep variant's Params (lines 32-41), after
\* __post_init__ (lines 43-45)
SweepDefaults ==
    [n_species |-> 20, density |-> Lit(6, 10), energy_grad |-> Lit(1, 1),
     noise_level |-> Lit(35, 100), membrane_threshold |-> Lit(70, 100),
     membrane_leak |-> Lit(15, 100), code_length |-> 64,
     crit_error |-> Lit(5, 100),
     ext_periods |-> <<PLit(1, 1), PLit(295, 10), PLit(31025, 10)>>,
     f_eta |-> Lit(61803, 100000)]

\* lines 80-85: the best score over the external periods
best_reson(T_int, ext_periods, res_width) ==
    LET score(T) ==
            LET r == Quot(T, T_int, Unit)
                diff == Abs(FSub(r, RoundQuot(r, Unit) * Unit))
            IN Exp(FDiv(FMul(diff, diff),
                        FMul(Float(2), FMul(res_width, res_width))))
    IN Max({0} \cup {score(ext_periods[k]) : k \in 1..Len(ext_periods)})

\* lines 92-96
sweep_success(cond_mem, cond_cycle, cond_gene) == cond_mem /\ cond_cycle /\ cond_gene

\* the genetic gate reported first
fail_reason_genetic_first(cond_mem, cond_cycle, cond_gene) ==
    IF cond_mem /\ cond_cycle /\ cond_gene THEN "None"
    ELSE IF ~cond_gene THEN "Genetic"
    ELSE IF ~cond_mem THEN "Membrane"
    ELSE "Cycle"

\* lines 93-101
fail_reason(cond_mem, cond_cycle, cond_gene) ==
    IF cond_mem /\ cond_cycle /\ cond_gene THEN "None"
    ELSE IF ~cond_mem THEN "Membrane"
    ELSE IF ~cond_cycle THEN "Cycle"
    ELSE IF ~cond_gene THEN "Genetic"
    ELSE "None"

\* lines 104-119: the record returned
trial_record(g, p, trial_id, mem_stab, c, T_int, best, eff_error) ==
    LET cond_mem == FGt(mem_stab, Lit(60, 100))
        cond_cycle == FGt(c.cycle_score, Lit(1, 1))
        cond_gene == FLt(eff_error, p.crit_error)
    IN [rng |-> g,
        out |-> [base_error |-> p.base_error, width |-> p.res_width,
                 power |-> p.power, trial |-> trial_id, reson_factor |-> best,
                 eff_error |-> eff_error, mem_stab |-> mem_stab,
                 cycle_score |-> c.cycle_score, T_int |-> T_int,
                 I |-> Quot(Abs(c.coh) * PUnit, T_int, 1),
                 success |-> IF sweep_success(cond_mem, cond_cycle, cond_gene)
                             THEN 1 ELSE 0,
                 fail_reason |-> fail_reason(cond_mem, cond_cycle, cond_gene)]]

\* lines 87-88: the effective error under the protection of the field
protected_error(g, p, trial_id, mem_stab, c, T_int, best) ==
    trial_record(g, p, trial_id, mem_stab, c, T_int, best,
        FMul(FMul(p.base_error,
                  FSub(Lit(1, 1),
                       FMul(FIELD_PROTECTION_FACTOR, Power(best, p.power)))),
             FAdd(Lit(1, 1),
                  FMul(Lit(1, 10), FDiv(Float(p.code_length), Float(64))))))

\* lines 80-85
resonance(g, p, trial_id, mem_stab, c, T_int) ==
    protected_error(g, p, trial_id, mem_stab, c, T_int,
                    best_reson(T_int, p.ext_periods, p.res_width))

\* lines 71-73: coh and cycle_score
cycle_score(eig, entropy, loop, energy, noise, membrane_leak) ==
    LET coh == FSub(FMul(eig, FAdd(Lit(1, 1), FMul(Lit(6, 10), energy))),
                    FAdd(membrane_leak, FMul(Lit(5, 10), noise)))
    IN [coh |-> coh,
        cycle_score |-> FAdd(FAdd(coh, FMul(Lit(15, 100), entropy)),
                             FMul(Lit(6, 10), loop))]

\* lines 67-69: the entropy of the matrix, over log(n_species)
sweep_entropy(adj, n) ==
    LET N == 1..n
        total == SumTo(Flat(adj, n), n * n)
        plogp == Array([e \in N \X N |-> PLogP(DivEps(adj[e], total))])
    IN IF n = 1 THEN NaN
       ELSE FDiv(FNeg(SumTo(Flat(plogp, n), n * n)), Log(Float(n)))

\* line 72
sweep_loop(adj, n) ==
    LET cube == Array(MatMul(MatMul(adj, adj, n), adj, n))
    IN FDiv(SumTo([i \in 1..n |-> cube[<<i, i>>]], n), Float(n))

\* lines 77-78, for a non-empty ext_periods
T_int_of(g, ext_periods, f_eta) ==
    LET shortest == CHOOSE T \in {ext_periods[k] : k \in 1..Len(ext_periods)} :
                        \A k \in 1..Len(ext_periods) : T <= ext_periods[k]
    IN FMul(FMul(shortest, FMul(f_eta, f_eta)),
            Normal(g, Lit(1, 1), Lit(2, 100)))

\* lines 61-78, for the energy and the noise drawn
gates(adj, g, p, trial_id, energy, noise) ==
    resonance(g, p, trial_id,
        FSub(FAdd(p.membrane_threshold, FMul(Lit(3, 10), energy)),
             FMul(Lit(4, 10), noise)),
        cycle_score(spectral_radius(adj, p.n_species),
                    sweep_entropy(adj, p.n_species), sweep_loop(adj, p.n_species),
                    energy, noise, p.membrane_leak),
        T_int_of(g, p.ext_periods, p.f_eta))

\* lines 57-58: g is the generator after the network is drawn
environment(adj, g, p, trial_id) ==
    gates(adj, Advance(Advance(Advance(g))), p, trial_id,
          FMul(p.energy_grad, Normal(Advance(g), Lit(1, 1), Lit(1, 10))),
          FMul(p.noise_level, Normal(Advance(Advance(g)), Lit(1, 1), Lit(15, 100))))

\* lines 50-55
network(b, p, trial_id) == environment(b.adj, b.rng, p, trial_id)

\* run_single_trial(p, trial_id), with the generator in state g, for
\* n_species >= 1, a non-empty ext_periods and res_width > 0; rng is the
\* generator after the call
run_single_trial(g, p, trial_id) ==
    network(build_reaction_network(g, p.n_species, p.density), p, trial_id)

----------------------------------------------------------------------------
(* Inputs: the keyword arguments a script passes to Params(...) *)

ErrorConfigs ==     \* <<base_error_rate, crit_error_threshold, code_length>>
    {<<Lit(2, 100), Lit(4, 100), 64>>,
     <<Lit(2, 100), Lit(283, 10000), 64>>,
     <<Lit(5, 10), Lit(49, 100), 1>>,
     <<Lit(5, 10), Lit(49, 100), 4>>}
PeriodArgs == {None, List(<<PLit(8, 1), PLit(50, 1)>>)}
ModeArgs == {"no_field", "field"}

\* a field run whose error threshold lies between the error rates of the
\* resonant and of the dissonant clock
TightThreshold ==
    {[Defaults EXCEPT !.n_species = n, !.trials = t, !.mode = "field",
                      !.crit_error_threshold = Lit(2, 100)] :
        n \in 1..MaxSpecies, t \in 1..MaxTrials}

\* the arguments of a well-formed Params
ValidInputs ==
    {[Defaults EXCEPT !.n_species = n, !.trials = t, !.mode = m,
                      !.base_error_rate = e[1], !.crit_error_threshold = e[2],
                      !.code_length = e[3], !.ext_periods = x] :
        n \in 1..MaxSpecies, t \in 1..MaxTrials, m \in ModeArgs,
        e \in ErrorConfigs, x \in PeriodArgs} \cup TightThreshold

\* the same with one argument the dataclass accepts although no trial, or no
\* aggregation, is defined for it
Degenerate(kw) ==
    {[kw EXCEPT !.n_species = 0],
     [kw EXCEPT !.trials = 0],
     [kw EXCEPT !.mode = "chaos"],
     [kw EXCEPT !.ext_periods = List(<<>>)],
     [kw EXCEPT !.resonance_tolerance = 0]}

\* the same with a compression coefficient in (0, 1) whose square
\* underflows to 0.0 (in Python, f_eta below about 1e-162)
Extreme(kw) == {[kw EXCEPT !.f_eta = Lit(1, 100)]}

Inputs ==
    ValidInputs \cup
    UNION {Degenerate(kw) \cup Extreme(kw) : kw \in {v \in ValidInputs :
               /\ v.base_error_rate = Defaults.base_error_rate
               /\ v.crit_error_threshold = Defaults.crit_error_threshold
               /\ ~v.ext_periods.given}}

\* Params(**kw): the dataclass __init__ stores the arguments, then __post_init__
Params(kw) == post_init(kw)

----------------------------------------------------------------------------
(* The script: import, Params(...), run_simulation(params) ... *)

NoLocals == [x \in {} |-> 0]
NoResult == [trials |-> -1]

\* the stages of run_trial, in the order the code runs them: network (155),
\* environment (158-160), membrane (163), rhythm (168-175), cycle (178-181),
\* fidelity (184-187), decision (190-203), return
CodeOrder ==
    <<"BUILD_NETWORK", "SAMPLE_ENVIRONMENT", "EVALUATE_MEMBRANE",
      "EVALUATE_RHYTHM", "EVALUATE_CYCLE", "EVALUATE_FIDELITY", "DECIDE", "DONE">>

Position(order, stage) == CHOOSE k \in 1..Len(order) : order[k] = stage

\* the stage the code runs after `stage`
SuccessorIn(order, stage) == order[Position(order, stage) + 1]
\* the cycle evaluated before the rhythm
Successor_cycle_first(stage) ==
    SuccessorIn(<<"BUILD_NETWORK", "SAMPLE_ENVIRONMENT", "EVALUATE_MEMBRANE",
                  "EVALUATE_CYCLE", "EVALUATE_RHYTHM", "EVALUATE_FIDELITY",
                  "DECIDE", "DONE">>, stage)
Successor(stage) == SuccessorIn(CodeOrder, stage)

Init ==
    /\ seed42 \in SeedStates
    /\ kwargs \in Inputs
    /\ runs = <<>>
    /\ params = Params(kwargs)
    /\ rng = default_rng(seed42)
    /\ pc = "ready"
    /\ tr = NoLocals
    /\ done = 0
    /\ successes = 0
    /\ coh_list = <<>>
    /\ fid_list = <<>>
    /\ I_list = <<>>
    /\ result = NoResult
    /\ exc = "none"
    /\ visited = <<>>
    /\ log = <<>>

\* run_trial moves on to the next stage
Advancing ==
    /\ pc' = Successor(pc)
    /\ visited' = Append(visited, Successor(pc))

\* an exception propagates out of run_trial and run_simulation and ends the script
Raise(e) ==
    /\ pc' = "raised"
    /\ exc' = e

\* run_simulation(params) is called: lines 208-211
Call ==
    /\ pc = "ready"
    /\ Len(runs) < MaxRuns
    /\ successes' = 0
    /\ coh_list' = <<>>
    /\ fid_list' = <<>>
    /\ I_list' = <<>>
    /\ done' = 0
    /\ tr' = NoLocals
    /\ log' = <<>>
    /\ runs' = Append(runs, [params |-> params, rng0 |-> rng, returned |-> FALSE])
    /\ IF params.trials > 0
       THEN /\ pc' = "BUILD_NETWORK"
            /\ visited' = <<"BUILD_NETWORK">>
       ELSE /\ pc' = "aggregate"
            /\ visited' = <<>>
    /\ UNCHANGED <<seed42, kwargs, params, rng, result, exc>>

\* run_trial, line 155
BuildNetwork ==
    /\ pc = "BUILD_NETWORK"
    /\ LET b == build_reaction_network(rng, params.n_species, params.density)
       IN /\ tr' = [adj |-> b.adj]
          /\ rng' = b.rng
    /\ Advancing
    /\ UNCHANGED <<seed42, kwargs, params, done, successes, coh_list, fid_list,
                   I_list, result, exc, log, runs>>

\* run_trial, lines 158-160
SampleEnvironment ==
    /\ pc = "SAMPLE_ENVIRONMENT"
    /\ LET g1 == Advance(rng)
           g2 == Advance(g1)
           g3 == Advance(g2)
           energy == FMul(params.energy_grad,
                          FAdd(Lit(1, 1), Normal(g1, 0, Lit(1, 10))))
           noise == PyMax(0, FMul(params.noise_level,
                                  FAdd(Lit(1, 1), Normal(g2, 0, Lit(2, 10)))))
           leak == PyMax(0, FMul(params.membrane_leak,
                                 FAdd(Lit(1, 1), Normal(g3, 0, Lit(25, 100)))))
       IN /\ tr' = tr @@ [energy |-> energy, noise |-> noise, leak |-> leak]
          /\ rng' = g3
    /\ Advancing
    /\ UNCHANGED <<seed42, kwargs, params, done, successes, coh_list, fid_list,
                   I_list, result, exc, log, runs>>

\* run_trial, line 163
EvaluateMembrane ==
    /\ pc = "EVALUATE_MEMBRANE"
    /\ tr' = tr @@ [mem_stab |-> membrane_stability(params.membrane_threshold,
                                                     tr.energy, tr.noise)]
    /\ Advancing
    /\ UNCHANGED <<seed42, kwargs, params, rng, done, successes, coh_list,
                   fid_list, I_list, result, exc, log, runs>>

\* the test of line 168
\* the baseline branch taken for no mode
is_no_field_never(mode) == mode = "nofield"
is_no_field(mode) == mode = "no_field"

\* T_int of the no_field branch (line 169): max(0.05, rng.random() * 2.0)
random_period(g) ==
    PyMax(PLit(5, 100), Quot(FMul(Uniform(g), Float(2)), Unit, PUnit))

\* run_trial, lines 168-175
EvaluateRhythm ==
    /\ pc = "EVALUATE_RHYTHM"
    /\ IF is_no_field(params.mode)
       THEN /\ rng' = Advance(rng)
            /\ tr' = tr @@ [T_int |-> random_period(Advance(rng)), reson |-> 0,
                            mod_factor |-> Lit(5, 100)]
            /\ Advancing
            /\ UNCHANGED <<exc, params>>
       ELSE LET T_int == inner_period(params.ext_periods, params.f_eta)
            IN /\ rng' = rng
               /\ params' = [params EXCEPT !.ext_periods =
                                 ext_periods_after(@, params.f_eta)]
               /\ IF resonance_raises(T_int, params.ext_periods,
                                      params.resonance_tolerance)
                  THEN /\ Raise(resonance_exception(T_int, params.ext_periods,
                                                     params.resonance_tolerance))
                       /\ UNCHANGED <<tr, visited>>
                  ELSE LET reson == resonance_score(T_int, params.ext_periods,
                                                    params.resonance_tolerance)
                       IN /\ tr' = tr @@
                                 [T_int |-> T_int, reson |-> reson,
                                  mod_factor |->
                                      FAdd(Lit(2, 10), FMul(Lit(6, 10), reson))]
                          /\ Advancing
                          /\ UNCHANGED exc
    /\ UNCHANGED <<seed42, kwargs, done, successes, coh_list, fid_list,
                   I_list, result, log, runs>>

\* line 181: the cycle must be retained by the membrane
holds_of(mem_stab, has_cycle) == FGt(mem_stab, Lit(5, 10)) /\ has_cycle

\* run_trial, lines 178-181.  For an empty matrix np.max raises ValueError
\* (line 79).
EvaluateCycle ==
    /\ pc = "EVALUATE_CYCLE"
    /\ IF params.n_species = 0
       THEN /\ Raise("ValueError")
            /\ UNCHANGED <<tr, visited>>
       ELSE LET c == evaluate_cycle_coherence(tr.adj, params.n_species,
                                              tr.energy, tr.leak, tr.noise)
            IN /\ tr' = tr @@
                      [coherence |-> c.coherence, has_cycle |-> c.has_cycle,
                       holds |-> holds_of(tr.mem_stab, c.has_cycle)]
               /\ Advancing
               /\ UNCHANGED exc
    /\ UNCHANGED <<seed42, kwargs, params, rng, done, successes, coh_list,
                   fid_list, I_list, result, log, runs>>

\* line 187: errors must not exceed the critical threshold
error_ok_of(fidelity, crit) == FLt(FSub(Lit(1, 1), fidelity), crit)

\* run_trial, lines 184-187
EvaluateFidelity ==
    /\ pc = "EVALUATE_FIDELITY"
    /\ LET fidelity == replication_fidelity(params.code_length, params.alphabet,
                                            params.base_error_rate, tr.mod_factor)
       IN tr' = tr @@ [fidelity |-> fidelity,
                       error_ok |-> error_ok_of(fidelity,
                                                params.crit_error_threshold)]
    /\ Advancing
    /\ UNCHANGED <<seed42, kwargs, params, rng, done, successes, coh_list,
                   fid_list, I_list, result, exc, log, runs>>

\* line 193
success_of(holds, error_ok) == holds /\ error_ok

\* lines 172-175 and 184-193 for an internal period T: the success flag of
\* a trial whose cycle is held or not (line 181)
success_with_period(T, holds, p) ==
    LET mod_factor ==
            IF is_no_field(p.mode) THEN Lit(5, 100)
            ELSE FAdd(Lit(2, 10),
                      FMul(Lit(6, 10),
                           resonance_score(T, p.ext_periods, p.resonance_tolerance)))
        fidelity == replication_fidelity(p.code_length, p.alphabet,
                                         p.base_error_rate, mod_factor)
    IN success_of(holds, error_ok_of(fidelity, p.crit_error_threshold))

\* a decision that also asks for an internal period above 1.0
Decide_period_gated ==
    /\ pc = "DECIDE"
    /\ LET Ival == invariant_I(tr.coherence, tr.T_int)
           success == success_of(tr.holds, tr.error_ok) /\ FGt(tr.T_int, PLit(1, 1))
           metrics == [coherence |-> tr.coherence, fidelity |-> tr.fidelity,
                       I |-> Ival, membrane_stability |-> tr.mem_stab,
                       T_internal |-> tr.T_int, resonance |-> tr.reson]
       IN /\ tr' = tr @@ [Ival |-> Ival, success |-> success, metrics |-> metrics]
          /\ log' = Append(log, [success |-> success, metrics |-> metrics])
    /\ Advancing
    /\ UNCHANGED <<seed42, kwargs, params, rng, done, successes, coh_list,
                   fid_list, I_list, result, exc, runs>>

\* run_trial, lines 190-203
Decide ==
    /\ pc = "DECIDE"
    /\ LET Ival == invariant_I(tr.coherence, tr.T_int)
           success == success_of(tr.holds, tr.error_ok)
           metrics == [coherence |-> tr.coherence, fidelity |-> tr.fidelity,
                       I |-> Ival, membrane_stability |-> tr.mem_stab,
                       T_internal |-> tr.T_int, resonance |-> tr.reson]
       IN /\ tr' = tr @@ [Ival |-> Ival, success |-> success, metrics |-> metrics]
          /\ log' = Append(log, [success |-> success, metrics |-> metrics])
    /\ Advancing
    /\ UNCHANGED <<seed42, kwargs, params, rng, done, successes, coh_list,
                   fid_list, I_list, result, exc, runs>>

\* lines 213-214
\* a counter that takes a success back on every failed trial
count_signed(n, success) == IF success THEN n + 1 ELSE n - 1
count(n, success) == IF success THEN n + 1 ELSE n

\* run_simulation, lines 212-217, and the loop's next iteration or exit
Accumulate ==
    /\ pc = "DONE"
    /\ successes' = count(successes, tr.success)
    /\ coh_list' = Append(coh_list, tr.metrics.coherence)
    /\ fid_list' = Append(fid_list, tr.metrics.fidelity)
    /\ I_list' = Append(I_list, tr.metrics.I)
    /\ done' = done + 1
    /\ tr' = NoLocals
    /\ IF done + 1 < params.trials
       THEN /\ pc' = "BUILD_NETWORK"
            /\ visited' = <<"BUILD_NETWORK">>
       ELSE /\ pc' = "aggregate"
            /\ visited' = <<>>
    /\ UNCHANGED <<seed42, kwargs, params, rng, result, exc, log, runs>>

\* Result(...) of lines 221-229, sr being successes / params.trials
\* a Result whose invariant mean is taken over the coherence list
MakeResult_wrong_list(sr) ==
    [success_rate |-> sr,
     mean_cycle_coherence |-> IF coh_list # <<>> THEN Mean(coh_list) ELSE 0,
     mean_replication_fidelity |-> IF fid_list # <<>> THEN Mean(fid_list) ELSE 0,
     mean_invariant_I |-> IF I_list # <<>> THEN Mean(coh_list) ELSE 0,
     successes |-> successes,
     trials |-> params.trials,
     mode |-> params.mode]

MakeResult(sr) ==
    [success_rate |-> sr,
     mean_cycle_coherence |-> IF coh_list # <<>> THEN Mean(coh_list) ELSE 0,
     mean_replication_fidelity |-> IF fid_list # <<>> THEN Mean(fid_list) ELSE 0,
     mean_invariant_I |-> IF I_list # <<>> THEN Mean(I_list) ELSE 0,
     successes |-> successes,
     trials |-> params.trials,
     mode |-> params.mode]

\* run_simulation, lines 219-229: successes / params.trials raises
\* ZeroDivisionError when trials is 0
Aggregate ==
    /\ pc = "aggregate"
    /\ IF params.trials = 0
       THEN /\ Raise("ZeroDivisionError")
            /\ UNCHANGED <<result, runs>>
       ELSE LET r == MakeResult(Quot(successes, params.trials, Unit))
            IN /\ result' = r
               /\ runs' = [runs EXCEPT ![Len(runs)] =
                               [params |-> @.params, rng0 |-> @.rng0,
                                returned |-> TRUE, result |-> r, rng1 |-> rng]]
               /\ pc' = "ready"
               /\ UNCHANGED exc
    /\ UNCHANGED <<seed42, kwargs, params, rng, tr, done, successes, coh_list,
                   fid_list, I_list, visited, log>>

\* the script is run again in a new process: the module is imported (line 6
\* seeds the generator) and Params(...) is constructed from the same arguments
Restart ==
    /\ pc = "ready"
    /\ runs # <<>>
    /\ Len(runs) < MaxRuns
    /\ rng.draws > 0
    /\ rng' = default_rng(seed42)
    /\ params' = Params(kwargs)
    /\ result' = NoResult
    /\ UNCHANGED <<seed42, kwargs, pc, tr, done, successes, coh_list, fid_list,
                   I_list, exc, visited, log, runs>>

Next ==
    \/ Call
    \/ BuildNetwork
    \/ SampleEnvironment
    \/ EvaluateMembrane
    \/ EvaluateRhythm
    \/ EvaluateCycle
    \/ EvaluateFidelity
    \/ Decide
    \/ Accumulate
    \/ Aggregate
    \/ Restart

Spec == Init /\ [][Next]_vars

----------------------------------------------------------------------------
(* The functions of the module called on their own: tr holds the arguments
   and, once the call has returned, the value `out` *)

InternalPeriods ==
    {PLit(1, 16), PLit(1, 2), PLit(1, 1), PLit(2, 1), PLit(3, 1), PLit(7, 1)}
PeriodLists ==
    {<<PLit(8, 1)>>, <<PLit(8, 1), PLit(50, 1)>>, <<PLit(6, 1), PLit(9, 1)>>,
     <<PLit(1, 1), PLit(7, 1)>>, <<PLit(5, 2)>>, DefaultPeriods}
Tolerances == {Lit(8, 100), Lit(1, 1024), Float(2)}

ResonanceCalls ==
    {[fn |-> "resonance_score", T_internal |-> t, ext_periods |-> x, tol |-> tol] :
        t \in InternalPeriods, x \in PeriodLists, tol \in Tolerances}

FidelityCalls ==
    {[fn |-> "replication_fidelity", code_length |-> l, alphabet |-> 4,
      base_error |-> b, mod_factor |-> m] :
        l \in {1, 64, 128},
        b \in {0, Lit(2, 100), Lit(5, 10), Lit(1, 1)},
        m \in {Lit(5, 100), Lit(8, 10), Float(2)}}

Densities == {0, Lit(6, 10), Lit(1, 1)}
BuilderCalls ==
    {[fn |-> "build_reaction_network", n |-> n, density |-> d] :
        n \in 0..MaxSpecies, d \in Densities}

\* the states of the generator at the calls of run_single_trial
SweepStates == {42, 3, 5}

\* run_single_trial(p, trial_id): the fields of p are written out
SweepCalls ==
    {[SweepDefaults EXCEPT !.n_species = n, !.membrane_threshold = m,
                           !.ext_periods = x] @@
     [fn |-> "run_single_trial", trial_id |-> 0,
      base_error |-> b, res_width |-> w, power |-> y] :
        n \in 1..MaxSpecies, m \in {Lit(70, 100), Lit(30, 100)},
        b \in {Lit(2, 100), Lit(5, 10)}, w \in {Lit(5, 100), Lit(2, 10)},
        y \in {Float(1), Float(2)},
        x \in {SweepDefaults.ext_periods, <<PLit(1, 1), PLit(295, 10)>>}}

\* the float after x, for x > 0
Nextafter(x) == x + Spacing(x)

\* membrane_stability(base_threshold, energy_grad, noise): the arguments
\* include pairs of neighbouring floats
MembraneCalls ==
    {[fn |-> "membrane_stability", base_threshold |-> b, energy_grad |-> e,
      noise |-> n] :
        b \in {Lit(55, 100), Lit(30, 100)},
        e \in {Lit(2, 10), Lit(1, 1), Nextafter(Lit(1, 1)), Lit(15, 10)},
        n \in {Lit(25, 100), Nextafter(Lit(25, 100)), Lit(6, 10), Lit(1, 1)}}

Calls ==
    ResonanceCalls \cup FidelityCalls \cup BuilderCalls \cup SweepCalls
        \cup MembraneCalls
\* the states the generator can be in when a function that draws is called
GeneratorStates == 0..(Modulus - 1)

\* nothing of the script is running: only the called function's frame exists
FunInit ==
    /\ tr \in Calls
    /\ seed42 \in (IF tr \in BuilderCalls THEN GeneratorStates
                   ELSE IF tr \in SweepCalls THEN SweepStates
                   ELSE {42})
    /\ kwargs = Defaults
    /\ runs = <<>>
    /\ params = Params(kwargs)
    /\ rng = default_rng(seed42)
    /\ pc = "called"
    /\ done = 0
    /\ successes = 0
    /\ coh_list = <<>>
    /\ fid_list = <<>>
    /\ I_list = <<>>
    /\ result = NoResult
    /\ exc = "none"
    /\ visited = <<>>
    /\ log = <<>>

\* the called function returns v; log keeps the calls that have returned
Return(v) ==
    /\ tr' = tr @@ [out |-> v]
    /\ log' = Append(log, tr @@ [out |-> v])
    /\ pc' = "returned"
    /\ UNCHANGED exc

\* the arguments c are those of the call t but for one of them
OneArgumentChanged(c, t) == Cardinality({f \in DOMAIN c : c[f] # t[f]}) = 1

\* the functions that draw nothing from the generator: their result is
\* compared from one call to the next
PureFunctions == {"resonance_score", "replication_fidelity", "membrane_stability"}

\* the same function is called once more, one argument changed
CallAgain ==
    /\ pc = "returned"
    /\ Len(log) < MaxCalls
    /\ tr.fn \in PureFunctions
    /\ \E c \in Calls :
           /\ c.fn = tr.fn
           /\ OneArgumentChanged(c, tr)
           /\ tr' = c
    /\ pc' = "called"
    /\ UNCHANGED <<seed42, kwargs, params, rng, done, successes, coh_list,
                   fid_list, I_list, result, exc, visited, log, runs>>

\* resonance_score(T_internal, ext_periods, tol)
ResonanceScore ==
    /\ pc = "called"
    /\ tr.fn = "resonance_score"
    /\ IF resonance_raises(tr.T_internal, tr.ext_periods, tr.tol)
       THEN /\ Raise(resonance_exception(tr.T_internal, tr.ext_periods, tr.tol))
            /\ UNCHANGED <<tr, log>>
       ELSE Return(resonance_score(tr.T_internal, tr.ext_periods, tr.tol))
    /\ UNCHANGED <<seed42, kwargs, params, rng, done, successes, coh_list,
                   fid_list, I_list, result, visited, runs>>

\* replication_fidelity(code_length, alphabet, base_error, mod_factor)
ReplicationFidelity ==
    /\ pc = "called"
    /\ tr.fn = "replication_fidelity"
    /\ Return(replication_fidelity(tr.code_length, tr.alphabet, tr.base_error,
                                   tr.mod_factor))
    /\ UNCHANGED <<seed42, kwargs, params, rng, done, successes, coh_list,
                   fid_list, I_list, result, visited, runs>>

\* build_reaction_network(n, density); out keeps the locals adj and mask
\* and the weights drawn on line 61
BuildReactionNetwork ==
    /\ pc = "called"
    /\ tr.fn = "build_reaction_network"
    /\ LET b == build_reaction_network(rng, tr.n, tr.density)
       IN /\ Return([adj |-> b.adj, mask |-> b.mask, weight |-> b.weight])
          /\ rng' = b.rng
    /\ UNCHANGED <<seed42, kwargs, params, done, successes, coh_list,
                   fid_list, I_list, result, visited, runs>>

\* run_single_trial(p, trial_id)
RunSingleTrial ==
    /\ pc = "called"
    /\ tr.fn = "run_single_trial"
    /\ LET t == run_single_trial(rng, tr, tr.trial_id)
       IN /\ Return(t.out)
          /\ rng' = t.rng
    /\ UNCHANGED <<seed42, kwargs, params, done, successes, coh_list,
                   fid_list, I_list, result, visited, runs>>

\* membrane_stability(base_threshold, energy_grad, noise)
MembraneStability ==
    /\ pc = "called"
    /\ tr.fn = "membrane_stability"
    /\ Return(membrane_stability(tr.base_threshold, tr.energy_grad, tr.noise))
    /\ UNCHANGED <<seed42, kwargs, params, rng, done, successes, coh_list,
                   fid_list, I_list, result, visited, runs>>

FunNext ==
    \/ CallAgain
    \/ MembraneStability
    \/ RunSingleTrial
    \/ BuildReactionNetwork
    \/ ResonanceScore
    \/ ReplicationFidelity

FunSpec == FunInit /\ [][FunNext]_vars

----------------------------------------------------------------------------
(* The loop of run_simulation on its own: run_trial returns one of a few
   given outcomes, lines 212-229 are those of the script *)

\* a trial whose modulation follows the coherence the draws gave
trial_return_coherence_modulated(p, holds, coherence, T_int) ==
    LET fidelity == replication_fidelity(p.code_length, p.alphabet,
                                         p.base_error_rate, coherence)
    IN [success |-> success_of(holds, error_ok_of(fidelity, p.crit_error_threshold)),
        metrics |-> [coherence |-> coherence, fidelity |-> fidelity,
                     I |-> invariant_I(coherence, T_int),
                     membrane_stability |-> Lit(7, 10), T_internal |-> T_int,
                     resonance |-> 0]]

\* what run_trial returns (lines 172-203) once its draws have given the
\* coherence, the internal period and whether the cycle holds: the flag and
\* the six metrics, for a resonance_score that raises nothing
trial_return(p, holds, coherence, T_int) ==
    LET reson == IF is_no_field(p.mode) THEN 0
                 ELSE resonance_score(T_int, p.ext_periods, p.resonance_tolerance)
        mod_factor == IF is_no_field(p.mode) THEN Lit(5, 100)
                      ELSE FAdd(Lit(2, 10), FMul(Lit(6, 10), reson))
        fidelity == replication_fidelity(p.code_length, p.alphabet,
                                         p.base_error_rate, mod_factor)
    IN [success |-> success_of(holds, error_ok_of(fidelity, p.crit_error_threshold)),
        metrics |-> [coherence |-> coherence, fidelity |-> fidelity,
                     I |-> invariant_I(coherence, T_int),
                     membrane_stability |-> Lit(7, 10), T_internal |-> T_int,
                     resonance |-> reson]]

\* the returns of run_trial(p) over a few outcomes of its draws; in field
\* mode the internal period is no draw (line 173)
Outcomes(p) ==
    {trial_return(p, holds, coherence, T_int) :
        holds \in BOOLEAN, coherence \in {Lit(1, 1), Lit(1, 256)},
        T_int \in (IF is_no_field(p.mode) THEN {PLit(1, 1)}
                   ELSE {inner_period(p.ext_periods, p.f_eta)})}

\* run_simulation(params) has been called (lines 208-211), trials >= 1
LoopInit ==
    /\ seed42 = 42
    /\ kwargs \in {[Defaults EXCEPT !.trials = t, !.mode = m,
                                    !.crit_error_threshold = c] :
                      t \in 1..MaxOutcomes, m \in ModeArgs,
                      c \in {Lit(4, 100), Lit(2, 100)}}
    /\ params = Params(kwargs)
    /\ rng = default_rng(seed42)
    /\ runs = <<[params |-> params, rng0 |-> rng, returned |-> FALSE]>>
    /\ pc = "BUILD_NETWORK"
    /\ tr = NoLocals
    /\ done = 0
    /\ successes = 0
    /\ coh_list = <<>>
    /\ fid_list = <<>>
    /\ I_list = <<>>
    /\ result = NoResult
    /\ exc = "none"
    /\ visited = <<"BUILD_NETWORK">>
    /\ log = <<>>

\* line 212: run_trial(params) returns
RunTrial ==
    /\ pc = "BUILD_NETWORK"
    /\ \E o \in Outcomes(params) :
           /\ tr' = o
           /\ log' = Append(log, o)
    /\ pc' = "DONE"
    /\ visited' = Append(visited, "DONE")
    /\ UNCHANGED <<seed42, kwargs, params, rng, done, successes, coh_list,
                   fid_list, I_list, result, exc, runs>>

LoopNext ==
    \/ RunTrial
    \/ Accumulate
    \/ Aggregate

LoopSpec == LoopInit /\ [][LoopNext]_vars

----------------------------------------------------------------------------
(* Properties *)

Stages == {CodeOrder[k] : k \in 1..Len(CodeOrder)}

\* run_simulation has returned a Result and nothing has happened since
Returned == pc = "ready" /\ result # NoResult

\* a valid Params: every field within the range its documentation gives
WellFormed(p) ==
    /\ p.n_species >= 1
    /\ p.density >= 0 /\ p.density <= Unit
    /\ p.energy_grad >= 0 /\ p.noise_level >= 0 /\ p.membrane_leak >= 0
    /\ p.code_length >= 1 /\ p.alphabet >= 2
    /\ p.base_error_rate >= 0 /\ p.base_error_rate <= Unit
    /\ p.crit_error_threshold >= 0 /\ p.crit_error_threshold <= Unit
    /\ p.f_eta > 0 /\ p.f_eta < Unit
    /\ p.ext_periods # <<>>
    /\ \A k \in 1..Len(p.ext_periods) : p.ext_periods[k] > 0
    /\ p.resonance_tolerance > 0
    /\ p.trials >= 1
    /\ p.mode \in {"no_field", "field"}

\* the malformed fields Section 7 of the specification lists
Malformed(p) ==
    \/ p.n_species = 0
    \/ p.ext_periods = <<>>
    \/ p.resonance_tolerance <= 0
    \/ p.trials = 0
    \/ p.mode \notin {"no_field", "field"}

\* C1: a trial's success flag is true exactly when the membrane holds
\* (stability > 0.5), the cycle evaluator reports a cycle, and the effective
\* replication error is strictly below crit_error_threshold.
C1_DecisionRule ==
    pc = "DONE" =>
        (tr.success <=>
            /\ FGt(tr.mem_stab, Lit(5, 10))
            /\ tr.has_cycle
            /\ FLt(effective_error(params.code_length, params.base_error_rate,
                                   tr.mod_factor),
                   params.crit_error_threshold))

\* C2: for valid Params the running successes counter is never negative and
\* never exceeds the number of trials processed so far, it never decreases
\* during a call, and the Result has 0 <= success_rate <= 1 and
\* successes <= trials.
C2_Bounds ==
    WellFormed(params) =>
        /\ 0 <= successes /\ successes <= done /\ done <= params.trials
        /\ Returned =>
              /\ 0 <= result.success_rate /\ result.success_rate <= Lit(1, 1)
              /\ result.successes <= result.trials
C2_Counting ==
    /\ []C2_Bounds
    /\ [][(WellFormed(params) /\ pc # "ready") => successes' >= successes]_vars
C2_Witness ==
    Returned /\ WellFormed(params) /\ result.trials = 2 /\ result.successes = 1

\* C3: two run_simulation calls with identical Params, each started with the
\* generator in the same seeded state, return Results equal in every field.
C3_Deterministic ==
    \A i, j \in 1..Len(runs) :
        (/\ runs[i].returned /\ runs[j].returned
         /\ runs[i].params = runs[j].params
         /\ \/ runs[i].rng0 = runs[j].rng0
            \/ runs[i].rng0.draws = 0 /\ runs[j].rng0.draws = 0)
        => runs[i].result = runs[j].result
C3_Witness ==
    /\ Len(runs) = 2 /\ runs[1].returned /\ runs[2].returned
    /\ runs[1].params = runs[2].params /\ runs[1].rng0 = runs[2].rng0
    /\ runs[2].result.trials = 2 /\ runs[2].result.successes = 1

\* C4: run_simulation runs run_trial exactly params.trials times and then
\* builds the Result: successes is the number of trials that returned
\* success, success_rate is successes / trials, each mean is the mean of that
\* metric over all trials, trials and mode are those of params.
LogOf(field) == [k \in 1..Len(log) |-> log[k].metrics[field]]
C4_Aggregation ==
    Returned =>
        /\ Len(log) = params.trials /\ done = params.trials
        /\ result.successes = Cardinality({k \in 1..Len(log) : log[k].success})
        /\ result.success_rate = Quot(result.successes, params.trials, Unit)
        /\ result.mean_cycle_coherence = Mean(LogOf("coherence"))
        /\ result.mean_replication_fidelity = Mean(LogOf("fidelity"))
        /\ result.mean_invariant_I = Mean(LogOf("I"))
        /\ result.trials = params.trials
        /\ result.mode = params.mode
C4_Witness ==
    /\ Returned /\ params.trials = 2 /\ result.successes = 1
    /\ log[1].metrics.coherence # log[2].metrics.coherence
    /\ log[1].metrics.coherence # log[2].metrics.I

\* C5: called with trials == 0, run_simulation does not raise and returns a
\* Result whose rate and means are 0, with successes == 0 and trials == 0.
C5_ZeroTrials ==
    params.trials = 0 =>
        /\ exc = "none"
        /\ Returned =>
              /\ result.success_rate = 0 /\ result.mean_cycle_coherence = 0
              /\ result.mean_replication_fidelity = 0
              /\ result.mean_invariant_I = 0
              /\ result.successes = 0 /\ result.trials = 0

\* C6: a Params with a malformed field fails at construction, so no
\* malformed Params object ever reaches run_simulation or run_trial.
C6_Validated == runs # <<>> => ~Malformed(params)

\* C7: after construction ext_periods is never empty: it is the 3-element
\* default when the caller supplies none, and non-empty for every input.
C7_PeriodsNonEmpty ==
    /\ params.ext_periods # <<>>
    /\ ~kwargs.ext_periods.given =>
           params.ext_periods = DefaultPeriods /\ Len(params.ext_periods) = 3

\* the genetic gate has failed in every trial so far and the Result, once
\* returned, counts no success
GeneticGateFails ==
    /\ "error_ok" \in DOMAIN tr => ~tr.error_ok
    /\ Returned => result.successes = 0 /\ result.success_rate = 0

SpecOrder ==
    <<"BUILD_NETWORK", "SAMPLE_ENVIRONMENT", "EVALUATE_MEMBRANE",
      "EVALUATE_CYCLE", "EVALUATE_RHYTHM", "EVALUATE_FIDELITY", "DECIDE", "DONE">>

\* the current trial has gone through the stages of `order` in that order,
\* none skipped or repeated, and has gone through all of them when it is DONE
Follows(order) ==
    /\ Len(visited) <= Len(order)
    /\ visited = SubSeq(order, 1, Len(visited))
    /\ pc \in Stages => visited # <<>> /\ pc = visited[Len(visited)]
    /\ pc = "DONE" => visited = order

C10_NoFieldResonance ==
    params.mode = "no_field" =>
        \A k \in 1..Len(log) : log[k].metrics.resonance = 0
C10_Witness ==
    /\ params.mode = "no_field" /\ Len(log) = 2
    /\ params.ext_periods # <<>>

\* the call of fn has ended, by a return or by an exception
Ended(fn) == pc \in {"returned", "raised"} /\ tr.fn = fn

\* every period of the list is an exact positive integer multiple of T_internal
Resonant(T_internal, ext_periods) ==
    /\ ext_periods # <<>>
    /\ \A k \in 1..Len(ext_periods) :
           ext_periods[k] >= T_internal /\ ext_periods[k] % T_internal = 0

\* C11: resonance_score(T_internal, ext_periods, tol) returns exactly 1.0
\* whenever every external period is an exact positive integer multiple of
\* T_internal, for every tol > 0.
C11_ExactResonance ==
    (/\ Ended("resonance_score")
     /\ Resonant(tr.T_internal, tr.ext_periods) /\ tr.tol > 0)
    => (pc = "returned" /\ tr.out = Lit(1, 1))

\* C12: resonance_score returns a value within [0, 1] for every
\* T_internal > 0, every non-empty list of positive external periods and
\* every tol > 0.
C12_ScoreInRange ==
    (/\ Ended("resonance_score")
     /\ tr.T_internal > 0 /\ tr.tol > 0 /\ tr.ext_periods # <<>>
     /\ \A k \in 1..Len(tr.ext_periods) : tr.ext_periods[k] > 0)
    => (pc = "returned" /\ 0 <= tr.out /\ tr.out <= Lit(1, 1))

\* two calls of replication_fidelity that have returned: the second with a
\* base_error, or a code_length, at least that of the first, the other
\* arguments the same
FidelityPairs ==
    {c \in (1..Len(log)) \X (1..Len(log)) :
        /\ log[c[1]].fn = "replication_fidelity"
        /\ log[c[2]].fn = "replication_fidelity"
        /\ log[c[1]].alphabet = log[c[2]].alphabet
        /\ log[c[1]].mod_factor = log[c[2]].mod_factor
        /\ log[c[1]].base_error <= log[c[2]].base_error
        /\ log[c[1]].code_length <= log[c[2]].code_length
        /\ \/ log[c[1]].base_error = log[c[2]].base_error
           \/ log[c[1]].code_length = log[c[2]].code_length}

\* C13 as stated: replication_fidelity is non-increasing in base_error and
\* non-increasing in code_length, the other arguments fixed, for every value
\* of the fixed arguments, including every mod_factor.
C13_EveryModFactor ==
    \A c \in FidelityPairs : log[c[1]].out >= log[c[2]].out

\* C13 as amended: the same for base_error >= 0 and mod_factor <= 1.
C13_Monotone ==
    \A c \in FidelityPairs :
        (log[c[1]].base_error >= 0 /\ log[c[1]].mod_factor <= Lit(1, 1))
        => log[c[1]].out >= log[c[2]].out
C13_Witness ==
    \E c \in FidelityPairs :
        /\ log[c[1]].mod_factor <= Lit(1, 1)
        /\ log[c[1]].code_length < log[c[2]].code_length
        /\ log[c[1]].out > log[c[2]].out

\* C14: run_trial's genetic gate is true exactly when effective_error =
\* base_error_rate * (1 + 0.5 * code_length / 64) * (1 - 0.6 * mod_factor) is
\* strictly below crit_error_threshold, for base_error_rate and
\* crit_error_threshold in [0, 1] and code_length >= 1.
C14_GateIsEffectiveError ==
    (/\ pc \in Stages /\ "error_ok" \in DOMAIN tr
     /\ params.code_length >= 1
     /\ 0 <= params.base_error_rate /\ params.base_error_rate <= Lit(1, 1)
     /\ 0 <= params.crit_error_threshold /\ params.crit_error_threshold <= Lit(1, 1))
    => (tr.error_ok <=>
            FLt(effective_error(params.code_length, params.base_error_rate,
                                tr.mod_factor),
                params.crit_error_threshold))

\* the sum of row i of the n x n matrix A, as adj.sum(axis=1) adds it
RowSum(A, n, i) == SumTo([j \in 1..n |-> A[<<i, j>>]], n)

\* the floating tolerance of a row sum
RowTolerance == Lit(2, 100)
IsOne(x) == ~IsNaN(x) /\ Abs(x - Lit(1, 1)) <= RowTolerance

\* the matrix has shape n x n, its weights are non-negative numbers and its
\* diagonal is exactly 0
IsNetwork(A, n) ==
    /\ DOMAIN A = (1..n) \X (1..n)
    /\ \A e \in DOMAIN A : ~IsNaN(A[e]) /\ A[e] >= 0
    /\ \A i \in 1..n : A[<<i, i>>] = 0

\* C15 as stated: the builder returns an n x n matrix of non-negative
\* weights, none NaN, with diagonal exactly 0, in which every row sums to 1,
\* a row summing to 0 only when every entry of that row was masked out.
C15_ZeroOnlyIfMasked ==
    (pc = "returned" /\ tr.fn = "build_reaction_network") =>
        /\ IsNetwork(tr.out.adj, tr.n)
        /\ \A i \in 1..tr.n :
               \/ IsOne(RowSum(tr.out.adj, tr.n, i))
               \/ /\ RowSum(tr.out.adj, tr.n, i) = 0
                  /\ \A j \in 1..tr.n : ~tr.out.mask[<<i, j>>]

\* the sum of the weights of row i that are left after masking and zeroing
\* the diagonal (row_sums of line 66, without the epsilon)
Left(out, n, i) ==
    SumTo([j \in 1..n |-> IF j # i /\ out.mask[<<i, j>>]
                          THEN out.weight[<<i, j>>] ELSE 0], n)

\* C15 as amended: the builder returns an n x n matrix of non-negative
\* weights, none NaN, with diagonal exactly 0; a row sums to 0 exactly when
\* each of its off-diagonal entries was masked out or drawn as 0.0 (so
\* always for n = 1), and to 1 within floating tolerance when the weights
\* left in it sum to at least 0.001.
C15_ZeroIffNothingLeft ==
    (pc = "returned" /\ tr.fn = "build_reaction_network") =>
        /\ IsNetwork(tr.out.adj, tr.n)
        /\ \A i \in 1..tr.n :
               IF Left(tr.out, tr.n, i) = 0
               THEN RowSum(tr.out.adj, tr.n, i) = 0
               ELSE /\ RowSum(tr.out.adj, tr.n, i) > 0
                    /\ Left(tr.out, tr.n, i) >= Lit(1, 1000) =>
                           IsOne(RowSum(tr.out.adj, tr.n, i))
C15_Witness ==
    /\ pc = "returned" /\ tr.fn = "build_reaction_network" /\ tr.n = 2
    /\ Left(tr.out, 2, 1) = 0 /\ tr.out.mask[<<1, 2>>]
    /\ Left(tr.out, 2, 2) >= Lit(1, 1000) /\ RowSum(tr.out.adj, 2, 2) = Lit(1, 1)

\* C16: for every well-formed Params no trial raises, and a trial that is
\* DONE returns a boolean together with a metrics record of the six fields
\* coherence, fidelity, I, membrane_stability, T_internal and resonance.
C16_NeverRaises ==
    WellFormed(params) =>
        /\ pc # "raised" /\ exc = "none"
        /\ pc = "DONE" =>
              /\ tr.success \in BOOLEAN
              /\ DOMAIN tr.metrics = {"coherence", "fidelity", "I",
                                      "membrane_stability", "T_internal", "resonance"}

\* the three gates of a sweep trial, read off the record it returned
Gates(t) ==
    [mem |-> FGt(t.out.mem_stab, Lit(60, 100)),
     cycle |-> FGt(t.out.cycle_score, Lit(1, 1)),
     gene |-> FLt(t.out.eff_error, t.crit_error)]

\* C17: in the sweep variant's run_single_trial, success is 1 exactly when
\* the three gates pass, fail_reason is "None" exactly when success is 1, and
\* otherwise it names the first failing gate in the order Membrane, Cycle,
\* Genetic.
C17_FirstFailingGate ==
    (pc = "returned" /\ tr.fn = "run_single_trial") =>
        LET c == Gates(tr)
        IN /\ tr.out.success = (IF c.mem /\ c.cycle /\ c.gene THEN 1 ELSE 0)
           /\ tr.out.fail_reason = "None" <=> tr.out.success = 1
           /\ tr.out.success = 0 =>
                  tr.out.fail_reason = (IF ~c.mem THEN "Membrane"
                                        ELSE IF ~c.cycle THEN "Cycle"
                                        ELSE "Genetic")
C17_Witness ==
    /\ pc = "returned" /\ tr.fn = "run_single_trial"
    /\ Gates(tr).mem /\ Gates(tr).cycle /\ ~Gates(tr).gene
    /\ tr.out.fail_reason = "Genetic"

\* C18: run_trial and run_simulation leave the Params object as it was when
\* run_simulation was called: every field, the contents of ext_periods
\* included, during the call and after it, for any number of trials, in both
\* modes.
C18_ParamsUnmodified ==
    runs # <<>> => params = runs[Len(runs)].params
C18_Witness ==
    /\ runs # <<>> /\ runs[Len(runs)].returned
    /\ pc = "ready"
    /\ params.mode = "field" /\ params.trials = MaxTrials
    /\ params = runs[Len(runs)].params

\* C19: an empty external period list that reaches a field-mode trial raises
\* nothing and gives resonance 0: the trial returns with resonance = 0 and a
\* boolean, never with an undefined (NaN) score.
C19_EmptyPeriodsZeroResonance ==
    (params.mode = "field" /\ params.ext_periods = <<>>) =>
        /\ pc # "raised"
        /\ pc = "DONE" =>
              /\ tr.success \in BOOLEAN
              /\ ~IsNaN(tr.metrics.resonance)
              /\ tr.metrics.resonance = 0

\* two calls of membrane_stability that have returned: the second with at
\* least the energy_grad and at most the noise of the first, the same
\* base_threshold, and not the same arguments
MembranePairs ==
    {c \in (1..Len(log)) \X (1..Len(log)) :
        /\ log[c[1]].fn = "membrane_stability"
        /\ log[c[2]].fn = "membrane_stability"
        /\ log[c[1]].base_threshold = log[c[2]].base_threshold
        /\ log[c[1]].energy_grad <= log[c[2]].energy_grad
        /\ log[c[1]].noise >= log[c[2]].noise
        /\ \/ log[c[1]].energy_grad < log[c[2]].energy_grad
           \/ log[c[1]].noise > log[c[2]].noise}

\* the containment gate of run_trial (line 181) kept from the first call of
\* a pair to the second
GateKept(c) == FGt(log[c[1]].out, Lit(5, 10)) => FGt(log[c[2]].out, Lit(5, 10))

\* C20 as stated: membrane_stability is strictly increasing in energy_grad
\* and strictly decreasing in noise, the other arguments fixed, so that the
\* containment gate (stability > 0.5), once it holds, holds for any higher
\* energy and any lower noise.
C20_StrictlyMonotone ==
    \A c \in MembranePairs : log[c[1]].out < log[c[2]].out /\ GateKept(c)

\* C20 as amended: membrane_stability is non-decreasing in energy_grad and
\* non-increasing in noise, and the containment gate, once it holds, holds
\* for any higher energy and any lower noise.
C20_Monotone ==
    \A c \in MembranePairs : log[c[1]].out <= log[c[2]].out /\ GateKept(c)
C20_Witness ==
    \E c \in MembranePairs :
        /\ log[c[1]].noise > log[c[2]].noise
        /\ log[c[1]].out < log[c[2]].out
        /\ ~FGt(log[c[1]].out, Lit(5, 10)) /\ FGt(log[c[2]].out, Lit(5, 10))

RECURSIVE CombinedCounts(_, _)
\* the counts obtained from the flags b[k], k in S: S split into parts in
\* any way, each part counted on its own, the partial counts added in any
\* order
CombinedCounts(b, S) ==
    IF Cardinality(S) = 1
    THEN {IF b[CHOOSE k \in S : TRUE] THEN 1 ELSE 0}
    ELSE UNION {{x + y : x \in CombinedCounts(b, A), y \in CombinedCounts(b, S \ A)} :
                    A \in (SUBSET S) \ {{}, S}}

RECURSIVE CombinedSums(_, _)
\* the same for the sums of the floats v[k], k in S
CombinedSums(v, S) ==
    IF Cardinality(S) = 1
    THEN {v[CHOOSE k \in S : TRUE]}
    ELSE UNION {{FAdd(x, y) : x \in CombinedSums(v, A), y \in CombinedSums(v, S \ A)} :
                    A \in (SUBSET S) \ {{}, S}}

\* the means the combined sums of a metric give
CombinedMeans(field) ==
    {Quot(x, Len(log), 1) : x \in CombinedSums(LogOf(field), 1..Len(log))}

\* 2 n units in the last place of the sum of the absolute values of a metric
RoundingBound(field) ==
    2 * Len(log) * Spacing(SumSeq([k \in 1..Len(log) |-> Abs(log[k].metrics[field])]))

\* the counts of any partition, combined in any order, are those of the loop
CountsAgree ==
    /\ CombinedCounts([k \in 1..Len(log) |-> log[k].success], 1..Len(log))
           = {result.successes}
    /\ result.success_rate = Quot(result.successes, Len(log), Unit)

\* C21 as stated: the partial counts and sums of any partition of the trials,
\* combined in any order, give the successes, the success_rate and the means
\* of the sequential loop.
C21_AnyOrderSame ==
    Returned =>
        /\ CountsAgree
        /\ CombinedMeans("coherence") = {result.mean_cycle_coherence}
        /\ CombinedMeans("fidelity") = {result.mean_replication_fidelity}
        /\ CombinedMeans("I") = {result.mean_invariant_I}

\* C21 as amended: they give the successes and the success_rate of the
\* sequential loop, and means within the rounding error of the additions
\* (2 n units in the last place of the sum of the absolute values).
C21_AnyOrderWithinRounding ==
    Returned =>
        /\ CountsAgree
        /\ \A x \in CombinedMeans("coherence") :
               Abs(x - result.mean_cycle_coherence) <= RoundingBound("coherence")
        /\ \A x \in CombinedMeans("fidelity") :
               Abs(x - result.mean_replication_fidelity) <= RoundingBound("fidelity")
        /\ \A x \in CombinedMeans("I") :
               Abs(x - result.mean_invariant_I) <= RoundingBound("I")
C21_Witness ==
    /\ Returned /\ Len(log) = 3 /\ result.successes = 2
    /\ log[1].metrics.coherence # log[2].metrics.coherence
    /\ Cardinality(CombinedMeans("coherence")) > 1

\* the internal periods the no_field branch can draw (line 169)
RandomPeriods == {random_period(default_rng(s)) : s \in GeneratorStates}

\* the success flag of the trial that is DONE is the one its internal period
\* gives: the invariant I plays no part in it
DecidedWithoutI ==
    tr.success = success_with_period(tr.T_int, tr.holds, params)

\* C22 as stated: T_internal and I never influence the success flag of a
\* trial: with another internal period, everything else the same, the flag is
\* the same.
C22_PeriodNeverInfluences ==
    pc = "DONE" =>
        /\ DecidedWithoutI
        /\ \A T \in RandomPeriods \cup InternalPeriods :
               ~resonance_raises(T, params.ext_periods, params.resonance_tolerance)
               => success_with_period(T, tr.holds, params) = tr.success

\* C22 as amended: I never influences the success flag; T_internal does not
\* in no_field mode, where a trial with another draw of the internal period,
\* everything else the same, has the same flag and the same metrics but for
\* T_internal and I.
C22_RandomPeriodNeverInfluences ==
    pc = "DONE" =>
        /\ DecidedWithoutI
        /\ params.mode = "no_field" =>
              /\ \A T \in RandomPeriods :
                     success_with_period(T, tr.holds, params) = tr.success
              /\ tr.metrics =
                     [coherence |-> tr.coherence, fidelity |-> tr.fidelity,
                      membrane_stability |-> tr.mem_stab, resonance |-> 0,
                      T_internal |-> tr.T_int,
                      I |-> invariant_I(tr.coherence, tr.T_int)]
              /\ tr.fidelity = replication_fidelity(params.code_length,
                                    params.alphabet, params.base_error_rate,
                                    Lit(5, 100))
C22_Witness ==
    /\ pc = "DONE" /\ params.mode = "no_field" /\ tr.success
    /\ tr.T_int > PLit(5, 100)
    /\ Cardinality(RandomPeriods) > 1

\* C23: for a well-formed Params the internal period of every trial is
\* strictly positive, in no_field mode within [0.05, 2.0), so that neither
\* the resonance search (T / T_internal) nor invariant_I divides by zero.
C23_PeriodPositive ==
    WellFormed(params) =>
        /\ exc # "ZeroDivisionError"
        /\ (pc \in Stages /\ "T_int" \in DOMAIN tr) =>
              /\ tr.T_int > 0
              /\ params.mode = "no_field" =>
                     tr.T_int >= PLit(5, 100) /\ tr.T_int < PLit(2, 1)

\* the reduction 0.6 * mod_factor of replication_fidelity (line 138) lies
\* within [0.6 * 0.05, 0.6 * (0.2 + 0.6)], that is [0.03, 0.48]
ReductionCapped(mod_factor) ==
    LET reduction == FMul(Lit(6, 10), mod_factor)
    IN /\ ~IsNaN(reduction)
       /\ reduction >= FMul(Lit(6, 10), Lit(5, 100))
       /\ reduction <= FMul(Lit(6, 10), FAdd(Lit(2, 10), FMul(Lit(6, 10), Lit(1, 1))))

\* C24: in every trial of the core variant the reduction 0.6 * mod_factor
\* stays within [0.03, 0.48], so that the effective error is strictly
\* positive whenever the base error is.
C24_ProtectionCapped ==
    (pc \in Stages /\ "mod_factor" \in DOMAIN tr) =>
        /\ ReductionCapped(tr.mod_factor)
        /\ params.base_error_rate > 0 =>
               FGt(effective_error(params.code_length, params.base_error_rate,
                                   tr.mod_factor), 0)

\* the draws of one run_trial: 2 n^2 for the network, 3 for the environment
\* and, in no_field mode, 1 for the internal period
DrawsPerTrial(p) ==
    2 * p.n_species * p.n_species + (IF p.mode = "no_field" THEN 4 ELSE 3)

\* C25: the generator is seeded once, at import, and run_trial and
\* run_simulation only advance it: each trial by 2 n_species^2 + 3 draws in
\* field mode and 2 n_species^2 + 4 in no_field mode, whatever the gates
\* say, a run_simulation of N trials by N times that, and the next
\* run_simulation call of the process starts from the state the last one left.
C25_GeneratorAdvances ==
    /\ (runs # <<>> /\ pc = "DONE" /\ params.mode \in ModeArgs) =>
           rng = AdvanceBy(runs[Len(runs)].rng0, (done + 1) * DrawsPerTrial(params))
    /\ \A i \in 1..Len(runs) :
           (runs[i].returned /\ runs[i].params.mode \in ModeArgs) =>
               runs[i].rng1 = AdvanceBy(runs[i].rng0,
                                  runs[i].params.trials * DrawsPerTrial(runs[i].params))
    /\ \A i \in 1..(Len(runs) - 1) :
           \/ runs[i + 1].rng0 = runs[i].rng1
           \/ runs[i + 1].rng0 = default_rng(seed42)
    /\ (runs # <<>> /\ pc \in Stages) =>
           /\ rng.draws >= runs[Len(runs)].rng0.draws
           /\ rng = AdvanceBy(runs[Len(runs)].rng0,
                              rng.draws - runs[Len(runs)].rng0.draws)
C25_Witness ==
    /\ Returned /\ Len(runs) = 2 /\ runs[2].returned
    /\ runs[2].rng0 = runs[1].rng1 /\ runs[2].rng0.draws > 0
    /\ result.trials = 2 /\ result.successes = 1
    /\ params.mode = "no_field" /\ params.n_species = 2

\* every trial of the run has the fidelity, and so the genetic gate verdict,
\* of the first, and in field mode its internal period and resonance
SameInEveryTrial ==
    \A k \in 1..Len(log) :
        /\ log[k].metrics.fidelity = log[1].metrics.fidelity
        /\ params.mode = "field" =>
               /\ log[k].metrics.T_internal = log[1].metrics.T_internal
               /\ log[k].metrics.resonance = log[1].metrics.resonance

\* a failed genetic gate fails in every trial, and no trial succeeds
GateFailsInAll ==
    (log # <<>> /\ ~error_ok_of(log[1].metrics.fidelity, params.crit_error_threshold))
    => /\ \A k \in 1..Len(log) : ~log[k].success
       /\ successes = 0
       /\ Returned => result.successes = 0

\* C26 as stated: within one run_simulation the fidelity and the genetic
\* gate verdict are those of the first trial in every trial, in field mode
\* T_internal and resonance too; hence mean_replication_fidelity equals the
\* per-trial fidelity, and a genetic gate that fails in one trial fails in
\* all, with successes == 0.
C26_MeanIsTheFidelity ==
    /\ SameInEveryTrial
    /\ GateFailsInAll
    /\ Returned => result.mean_replication_fidelity = log[1].metrics.fidelity

\* C26 as amended: the same, but mean_replication_fidelity equals the
\* per-trial fidelity only within the rounding error of the sum.
C26_MeanNearTheFidelity ==
    /\ SameInEveryTrial
    /\ GateFailsInAll
    /\ Returned =>
           Abs(result.mean_replication_fidelity - log[1].metrics.fidelity)
               <= RoundingBound("fidelity")
C26_Witness ==
    /\ Returned /\ Len(log) = 3 /\ params.mode = "field"
    /\ ~error_ok_of(log[1].metrics.fidelity, params.crit_error_threshold)
    /\ result.successes = 0
    /\ log[1].metrics.coherence # log[2].metrics.coherence

====
